---------------------------- MODULE Spec2Model ----------------------------
(***************************************************************************)
(* Relative-position bucketing of the DeBERTa-v2 disentangled attention    *)
(* (src/src/deberta_v2/attention.rs).                                      *)
(*                                                                         *)
(* Two specifications:                                                     *)
(*   Spec     calls of the pure function build_relative_position           *)
(*            (which applies make_log_bucket_position);                    *)
(*   SpecAtt  DisentangledSelfAttention::new followed by calls of          *)
(*            disentangled_att_bias.                                       *)
(*                                                                         *)
(* Tensors are records [shape, data]: shape is the size sequence, data     *)
(* maps the index pair <<i, j>> of the last two axes to the entry.         *)
(* Floating-point values are modelled by class: a finite value, +inf,      *)
(* -inf or NaN.  The finite value of ceil(ln(x)/ln(D) * (mid-1)) is        *)
(* computed exactly by integer power comparisons.                          *)
(***************************************************************************)
EXTENDS Integers, Sequences, FiniteSets, TLC

VARIABLES self, call

vars == <<self, call>>

---------------------------------------------------------------------------
(* Bounds of the model *)

MaxSize == 8
MaxBucket == 6
MaxPosition == 9
MaxLen == 3
MaxRank == 5
MaxLead == 2
MaxConfig == 4

(* The smallest configuration scalar drawn: negative values disable bucketing. *)
MinParam == 0 - 1

---------------------------------------------------------------------------
(* Option<T>, Result and panics *)

None == <<>>
Some(v) == <<v>>
OptionOf(S) == {None} \cup {Some(v) : v \in S}
is_none(o) == o = None
unwrap_or(o, d) == IF o = None THEN d ELSE o[1]

Returned(v) == [ok |-> TRUE, val |-> v]
Panicked == [ok |-> FALSE, val |-> "panic"]

---------------------------------------------------------------------------
(* Scalars *)

abs(x) == IF x < 0 THEN 0 - x ELSE x
sign(x) == IF x > 0 THEN 1 ELSE IF x < 0 THEN 0 - 1 ELSE 0
Min(a, b) == IF a < b THEN a ELSE b

(* Rust's i64 `/`: truncation toward zero; the divisor is not zero. *)
TruncDiv(a, b) == sign(a) * sign(b) * (abs(a) \div abs(b))

RECURSIVE Pow(_, _)
Pow(b, e) == IF e = 0 THEN 1 ELSE b * Pow(b, e - 1)

(* TLC integers are 32 bits wide: the two extremes of i64 are represented  *)
(* by values of the same asymmetry, far outside every index and bucket.    *)
I64_MAX == Pow(2, 30) - 1
I64_MIN == 0 - Pow(2, 30)

---------------------------------------------------------------------------
(* Floating-point values by class *)

Fin(n) == [cls |-> "fin", n |-> n]
PInf == [cls |-> "pinf", n |-> 0]
NInf == [cls |-> "ninf", n |-> 0]
NaN == [cls |-> "nan", n |-> 0]

(* float * integer scalar *)
fmul(f, s) ==
    CASE f.cls = "fin" -> Fin(f.n * s)
      [] f.cls = "nan" -> NaN
      [] f.cls = "pinf" -> IF s > 0 THEN PInf ELSE IF s < 0 THEN NInf ELSE NaN
      [] f.cls = "ninf" -> IF s > 0 THEN NInf ELSE IF s < 0 THEN PInf ELSE NaN

(* float + integer scalar *)
fadd(f, s) == IF f.cls = "fin" THEN Fin(f.n + s) ELSE f

(* Casting a non-finite float to Int64 is undefined in the tensor engine:  *)
(* truncating hardware yields the "integer indefinite" value I64_MIN for   *)
(* every class, saturating hardware yields 0 for NaN and the extreme of    *)
(* the same sign for an infinity.  A cast behaviour maps each class to one *)
(* of its possible outcomes.                                               *)
CastBehaviours ==
    { [nan |-> a, pinf |-> b, ninf |-> I64_MIN] :
        a \in {I64_MIN, 0}, b \in {I64_MIN, I64_MAX} }

to_kind_int64(f, cast) ==
    CASE f.cls = "fin" -> f.n
      [] f.cls = "nan" -> cast.nan
      [] f.cls = "pinf" -> cast.pinf
      [] f.cls = "ninf" -> cast.ninf

---------------------------------------------------------------------------
(* Tensor primitives of the array engine *)

Idx(rows, cols) == (0 .. rows - 1) \X (0 .. cols - 1)

(* Tensor::arange(n): the 1-D tensor 0, 1, ..., n-1 *)
arange(n) == [shape |-> <<n>>, data |-> [i \in 0 .. n - 1 |-> i]]

(* q_ids.unsqueeze(-1) - k_ids.tile([q, 1]): the outer difference *)
outer_difference(q_ids, k_ids) ==
    [shape |-> <<q_ids.shape[1], k_ids.shape[1]>>,
     data |-> [p \in Idx(q_ids.shape[1], k_ids.shape[1]) |->
                 q_ids.data[p[1]] - k_ids.data[p[2]]]]

(* t.slice(0, start, end, 1) of a 2-D tensor: rows start .. min(end, rows)-1 *)
slice_rows(t, start, end) ==
    LET stop == Min(end, t.shape[1])
        rows == IF stop > start THEN stop - start ELSE 0
    IN  [shape |-> <<rows, t.shape[2]>>,
         data |-> [p \in Idx(rows, t.shape[2]) |-> t.data[<<p[1] + start, p[2]>>]]]

(* shape.insert(axis, 1), axis counted from 0 *)
unsqueeze_shape(shape, axis) ==
    SubSeq(shape, 1, axis) \o <<1>> \o SubSeq(shape, axis + 1, Len(shape))

(* t.unsqueeze(axis) for an axis before the last two: the entries stay *)
unsqueeze(t, axis) == [shape |-> unsqueeze_shape(t.shape, axis), data |-> t.data]

---------------------------------------------------------------------------
(* make_log_bucket_position, entry by entry *)

(* mid = bucket_size / 2 *)
mid_of(bucket_size) == TruncDiv(bucket_size, 2)

(* abs_pos: |rel| outside the open interval (-mid, mid), mid - 1 inside *)
abs_pos_of(rel, mid) ==
    IF ~(rel < mid /\ rel > 0 - mid) THEN abs(rel) ELSE mid - 1

(* ((max_position - 1) / mid) as f64: an i64 division, then the cast *)
log_divisor(max_position, mid) == TruncDiv(max_position - 1, mid)

(* least k >= 0 with A <= B * D^k, for A > B >= 1 and D >= 2 *)
RECURSIVE CeilUp(_, _, _, _)
CeilUp(A, B, D, k) == IF A <= B * Pow(D, k) THEN k ELSE CeilUp(A, B, D, k + 1)

(* greatest j >= 0 with A * D^j <= B, for 1 <= A <= B and D >= 2 *)
RECURSIVE FloorDown(_, _, _, _)
FloorDown(A, B, D, j) ==
    IF A * Pow(D, j + 1) <= B THEN FloorDown(A, B, D, j + 1) ELSE j

(* ceil(e * ln(a / m) / ln(D)) for a, m >= 1, e >= 1, D >= 2: the least    *)
(* integer k with (a/m)^e <= D^k                                           *)
CeilLog(a, m, e, D) ==
    IF Pow(a, e) > Pow(m, e)
    THEN CeilUp(Pow(a, e), Pow(m, e), D, 0)
    ELSE 0 - FloorDown(Pow(a, e), Pow(m, e), D, 0)

(* Class of ln(num / den), den # 0: ln(0) = -inf, ln(x) = NaN for x < 0 *)
ln_ratio_class(num, den) ==
    IF num = 0 THEN "ninf"
    ELSE IF (num < 0) # (den < 0) THEN "nan"
    ELSE IF abs(num) < abs(den) THEN "neg"
    ELSE IF abs(num) = abs(den) THEN "zero" ELSE "pos"

(* Class of the quotient of two logarithms: x/0 = +-inf, 0/0 = NaN,        *)
(* inf/inf = NaN, x/-inf = 0; "real" is a finite quotient by ln(D) > 0     *)
ln_quotient_class(num, den) ==
    CASE num = "nan" \/ den = "nan" -> "nan"
      [] den = "ninf" -> IF num = "ninf" THEN "nan" ELSE "zero"
      [] den = "zero" -> CASE num = "pos" -> "pinf"
                           [] num = "zero" -> "nan"
                           [] OTHER -> "ninf"
      [] OTHER -> IF num = "ninf" THEN "ninf" ELSE "real"

(* (((abs_pos / mid).log() / ln(D)) * (mid - 1)).ceil(), mid # 0.          *)
(* A "real" quotient has abs_pos >= 1, mid >= 1 and D >= 2.                *)
ceil_scaled_log(abs_pos, mid, D) ==
    LET e == mid - 1
        quot == ln_quotient_class(ln_ratio_class(abs_pos, mid), ln_ratio_class(D, 1))
    IN  CASE quot = "nan" -> NaN
          [] quot = "zero" -> Fin(0)
          [] quot = "pinf" -> fmul(PInf, e)
          [] quot = "ninf" -> fmul(NInf, e)
          [] quot = "real" -> IF e = 0 THEN Fin(0) ELSE Fin(CeilLog(abs_pos, mid, e, D))

(* log_pos = ceil(...) + mid *)
log_pos_of(abs_pos, mid, max_position) ==
    fadd(ceil_scaled_log(abs_pos, mid, log_divisor(max_position, mid)), mid)

(* the condition of where_self: abs_pos.less_equal(mid) *)
keeps_raw(abs_pos, mid) == abs_pos <= mid

(* Variant: where_self applied to abs_pos in place of relative_pos, so the *)
(* near region keeps the placeholder mid - 1 (and loses the sign).         *)
bucket_pos_of_abs_pos(rel, mid, max_position, cast) ==
    LET abs_pos == abs_pos_of(rel, mid)
        log_pos == log_pos_of(abs_pos, mid, max_position)
    IN  IF keeps_raw(abs_pos, mid)
        THEN abs_pos
        ELSE to_kind_int64(fmul(log_pos, sign(rel)), cast)

(* relative_pos.where_self(abs_pos <= mid, log_pos * sign).to_kind(Int64) *)
bucket_pos_of(rel, mid, max_position, cast) ==
    LET abs_pos == abs_pos_of(rel, mid)
        log_pos == log_pos_of(abs_pos, mid, max_position)
    IN  IF keeps_raw(abs_pos, mid)
        THEN rel
        ELSE to_kind_int64(fmul(log_pos, sign(rel)), cast)

(* The i64 division (max_position - 1) / mid panics when mid = 0, that is  *)
(* for bucket_size in {-1, 0, 1}.                                          *)
make_log_bucket_position(relative_pos, bucket_size, max_position, cast) ==
    LET mid == mid_of(bucket_size)
    IN  IF mid = 0
        THEN Panicked
        ELSE Returned([shape |-> relative_pos.shape,
                       data |-> [p \in DOMAIN relative_pos.data |->
                                   bucket_pos_of(relative_pos.data[p], mid,
                                                 max_position, cast)]])

---------------------------------------------------------------------------
(* build_relative_position *)

(* Variant: bucketing applied when either parameter is positive *)
bucketing_enabled_either(bucket_size, max_position) == bucket_size > 0 \/ max_position > 0

bucketing_enabled(bucket_size, max_position) == bucket_size > 0 /\ max_position > 0

(* Variant: the slice drops the last row (end = query_size - 1) *)
finish_relative_position_short(rel_pos_ids, query_size) ==
    unsqueeze(slice_rows(rel_pos_ids, 0, query_size - 1), 0)

(* rel_pos_ids.slice(0, 0, query_size, 1).unsqueeze(0) *)
finish_relative_position(rel_pos_ids, query_size) ==
    unsqueeze(slice_rows(rel_pos_ids, 0, query_size), 0)

build_relative_position(query_size, key_size, bucket_size, max_position, cast) ==
    LET q_ids == arange(query_size)
        k_ids == arange(key_size)
        raw == outer_difference(q_ids, k_ids)
        bucketed == IF bucketing_enabled(bucket_size, max_position)
                    THEN make_log_bucket_position(raw, bucket_size, max_position, cast)
                    ELSE Returned(raw)
    IN  IF bucketed.ok
        THEN Returned(finish_relative_position(bucketed.val, query_size))
        ELSE Panicked

---------------------------------------------------------------------------
(* Specification Spec: calls of build_relative_position *)

NoSelf == [constructed |-> FALSE]

Sizes == 1 .. MaxSize
BucketSizes == MinParam .. MaxBucket
MaxPositions == MinParam .. MaxPosition

(* A call about to be made, with its arguments *)
BuildCalls ==
    [op : {"build_relative_position"}, done : {FALSE},
     query_size : Sizes, key_size : Sizes,
     bucket_size : BucketSizes, max_position : MaxPositions]

Init == self = NoSelf /\ call \in BuildCalls

BuildRelativePosition(cast) ==
    /\ call.op = "build_relative_position"
    /\ ~call.done
    /\ call' = [op |-> "build_relative_position",
                done |-> TRUE,
                query_size |-> call.query_size,
                key_size |-> call.key_size,
                bucket_size |-> call.bucket_size,
                max_position |-> call.max_position,
                ret |-> build_relative_position(call.query_size, call.key_size,
                                                call.bucket_size, call.max_position,
                                                cast)]
    /\ UNCHANGED self

Next == \E cast \in CastBehaviours : BuildRelativePosition(cast)

Spec == Init /\ [][Next]_vars

---------------------------------------------------------------------------
(* DisentangledSelfAttention.  The linear layers, the dropouts,            *)
(* num_attention_heads and output_attentions hold no state that the        *)
(* relative-position steps read; pos_key_proj and pos_query_proj are kept  *)
(* as present (TRUE) or absent (FALSE).                                    *)

PositionAttentionType == {"c2p", "p2c", "p2p"}

(* DisentangledSelfAttention::new *)
new(config) ==
    LET share_attention_key == unwrap_or(config.share_att_key, FALSE)
        pos_att_type == config.pos_att_type
        relative_attention == unwrap_or(config.relative_attention, FALSE)
        position_buckets == unwrap_or(config.position_buckets, 0 - 1)
        given == unwrap_or(config.max_relative_positions, 0 - 1)
        max_relative_positions ==
            IF given < 1 THEN config.max_position_embeddings ELSE given
        pos_ebd_size ==
            IF position_buckets > 0 THEN position_buckets ELSE max_relative_positions
    IN  [constructed |-> TRUE,
         share_attention_key |-> share_attention_key,
         pos_att_type |-> pos_att_type,
         max_relative_positions |->
            IF relative_attention THEN Some(max_relative_positions) ELSE None,
         position_buckets |->
            IF relative_attention THEN Some(position_buckets) ELSE None,
         pos_embed_size |->
            IF relative_attention THEN Some(pos_ebd_size) ELSE None,
         pos_key_proj |->
            /\ relative_attention
            /\ ~share_attention_key
            /\ ("c2p" \in pos_att_type \/ "p2p" \in pos_att_type),
         pos_query_proj |->
            /\ relative_attention
            /\ ~share_attention_key
            /\ ("p2c" \in pos_att_type \/ "p2p" \in pos_att_type)]

RECURSIVE reverse(_)
reverse(seq) == IF seq = <<>> THEN <<>> ELSE reverse(Tail(seq)) \o <<Head(seq)>>

ValueError == [ok |-> FALSE, val |-> "ValueError"]

(* Variant: every rank above 3 is taken as already batched *)
normalise_relative_pos_lenient(relative_pos) ==
    LET dim == Len(relative_pos.shape)
    IN  CASE dim = 2 -> Returned(unsqueeze(unsqueeze(relative_pos, 0), 0))
          [] dim = 3 -> Returned(unsqueeze(relative_pos, 1))
          [] dim >= 4 -> Returned(relative_pos)
          [] OTHER -> ValueError

(* Variant: the rank-3 tensor gets its singleton in front (axis 0) *)
normalise_relative_pos_front(relative_pos) ==
    LET dim == Len(relative_pos.shape)
    IN  CASE dim = 2 -> Returned(unsqueeze(unsqueeze(relative_pos, 0), 0))
          [] dim = 3 -> Returned(unsqueeze(relative_pos, 0))
          [] dim = 4 -> Returned(relative_pos)
          [] OTHER -> ValueError

(* match &relative_pos.dim() { 2 => .., 3 => .., 4 => .., _ => Err(ValueError) } *)
normalise_relative_pos(relative_pos) ==
    LET dim == Len(relative_pos.shape)
    IN  CASE dim = 2 -> Returned(unsqueeze(unsqueeze(relative_pos, 0), 0))
          [] dim = 3 -> Returned(unsqueeze(relative_pos, 1))
          [] dim = 4 -> Returned(relative_pos)
          [] OTHER -> ValueError

(* relative_embeddings.slice(0, 0, 2 * att_span, 1).unsqueeze(0), by shape *)
sliced_embeddings_shape(relative_embeddings_shape, att_span) ==
    LET stop == Min(2 * att_span, relative_embeddings_shape[1])
    IN  <<1, IF stop > 0 THEN stop ELSE 0, relative_embeddings_shape[2]>>

(* disentangled_att_bias.  The result records how the call ended ("Ok",    *)
(* "ValueError" for Err(RustBertError::ValueError), or "panic"), the       *)
(* relative position computed by the call,                                 *)
(* the normalised relative position and the sliced embedding shape, each   *)
(* None when the call ended before that step.  The projections after the   *)
(* slice produce tensors the call drops: it returns Ok(Tensor::new()).     *)
disentangled_att_bias(this, query_layer, key_layer, relative_pos, relative_embeddings, cast) ==
    LET key_layer_size == reverse(key_layer)
        query_layer_size == reverse(query_layer)
        built == IF is_none(relative_pos)
                 THEN build_relative_position(query_layer_size[2], key_layer_size[2],
                                              unwrap_or(this.position_buckets, 0 - 1),
                                              unwrap_or(this.max_relative_positions, 0 - 1),
                                              cast)
                 ELSE Returned(relative_pos[1])
        calc_relative_pos == IF is_none(relative_pos) /\ built.ok THEN Some(built.val) ELSE None
        ended(outcome, normalised, embeddings) ==
            [outcome |-> outcome,
             calc_relative_pos |-> calc_relative_pos,
             relative_pos |-> normalised,
             relative_embeddings |-> embeddings]
    IN  IF ~built.ok
        THEN ended("panic", None, None)
        ELSE LET normalised == normalise_relative_pos(built.val)
             IN  IF ~normalised.ok
                 THEN ended("ValueError", None, None)
                 ELSE IF is_none(this.pos_embed_size)
                      THEN ended("panic", Some(normalised.val), None)
                      ELSE ended("Ok", Some(normalised.val),
                                 Some(sliced_embeddings_shape(relative_embeddings,
                                                              this.pos_embed_size[1])))

---------------------------------------------------------------------------
(* Specification SpecAtt: construction, then one call of                   *)
(* disentangled_att_bias (the call takes &self and leaves self as it is).  *)

ConfigScalars == MinParam .. MaxConfig

Configs ==
    [relative_attention : OptionOf(BOOLEAN),
     position_buckets : OptionOf(ConfigScalars),
     max_relative_positions : OptionOf(ConfigScalars),
     max_position_embeddings : 1 .. MaxConfig,
     share_att_key : OptionOf(BOOLEAN),
     pos_att_type : SUBSET PositionAttentionType]

InitAtt == self = NoSelf /\ call \in [op : {"new"}, done : {FALSE}, config : Configs]

New ==
    /\ call.op = "new"
    /\ ~call.done
    /\ self' = new(call.config)
    /\ call' = [op |-> "new", done |-> TRUE]

(* Layers are (batch * heads, length, head size) *)
BatchHeads == MaxLen + 1
HeadSize == MaxLen + 2
HiddenSize == MaxLen + 3
LayerShape(len) == <<BatchHeads, len, HeadSize>>

RECURSIVE Repeat(_, _)
Repeat(v, n) == IF n = 0 THEN <<>> ELSE <<v>> \o Repeat(v, n - 1)

(* A supplied relative position of the given rank: the last two axes are    *)
(* (query length, key length), the batch axes before them have size lead.  *)
SuppliedShape(rank, lead, q, k) ==
    CASE rank = 0 -> <<>>
      [] rank = 1 -> <<k>>
      [] OTHER -> Repeat(lead, rank - 2) \o <<q, k>>

SuppliedTensor(rank, lead, q, k) ==
    [shape |-> SuppliedShape(rank, lead, q, k),
     data |-> IF rank >= 2 THEN [p \in Idx(q, k) |-> p[1] - p[2]] ELSE <<>>]

RelativePositions(q, k) ==
    {None} \cup {Some(SuppliedTensor(rank, lead, q, k)) :
                    rank \in 0 .. MaxRank, lead \in 1 .. MaxLead}

EmbeddingRows == {1, 2 * MaxConfig + 1}

DisentangledAttBias(q, k, relative_pos, rows, cast) ==
    /\ self.constructed
    /\ call.op = "new"
    /\ call' = [op |-> "disentangled_att_bias",
                done |-> TRUE,
                query_layer |-> LayerShape(q),
                key_layer |-> LayerShape(k),
                relative_pos |-> relative_pos,
                relative_embeddings |-> <<rows, HiddenSize>>,
                ret |-> disentangled_att_bias(self, LayerShape(q), LayerShape(k),
                                              relative_pos, <<rows, HiddenSize>>, cast)]
    /\ UNCHANGED self

NextAtt ==
    \/ New
    \/ \E q \in 1 .. MaxLen, k \in 1 .. MaxLen, rows \in EmbeddingRows,
          cast \in CastBehaviours :
          \E relative_pos \in RelativePositions(q, k) :
              DisentangledAttBias(q, k, relative_pos, rows, cast)

SpecAtt == InitAtt /\ [][NextAtt]_vars

---------------------------------------------------------------------------
(* Properties of build_relative_position, checked under Spec *)

BuildDone == call.op = "build_relative_position" /\ call.done
BuildReturned == BuildDone /\ call.ret.ok
Rows == 0 .. call.query_size - 1
Cols == 0 .. call.key_size - 1
Entry(i, j) == call.ret.val.data[<<i, j>>]
Mid == call.bucket_size \div 2
BucketingOn == call.bucket_size > 0 /\ call.max_position > 0
ValidConfig ==
    /\ call.bucket_size >= 2
    /\ call.bucket_size % 2 = 0
    /\ call.max_position > Mid + 1

(* C1: with bucket_size <= 0 or max_position <= 0 the call returns and      *)
(* every entry [0][i][j] is exactly i - j.                                  *)
C1_DisabledBucketingIsRaw ==
    (BuildDone /\ (call.bucket_size <= 0 \/ call.max_position <= 0)) =>
        /\ call.ret.ok
        /\ \A i \in Rows, j \in Cols : Entry(i, j) = i - j

(* a disabled call with one positive parameter and distances of both signs *)
C1_Witness ==
    /\ BuildReturned
    /\ call.bucket_size > 1 /\ call.max_position <= 0
    /\ call.query_size > Mid + 1 /\ call.key_size > Mid + 1
    /\ \A i \in Rows, j \in Cols : Entry(i, j) = i - j

(* C2: with bucketing enabled, every entry whose raw distance satisfies     *)
(* |i - j| <= mid equals i - j: the placeholder mid - 1 never shows.        *)
C2_NearRangeExact ==
    (BuildReturned /\ BucketingOn) =>
        \A i \in Rows, j \in Cols : abs(i - j) <= Mid => Entry(i, j) = i - j

(* a bucketed result holding a boundary entry |i - j| = mid, a near entry   *)
(* different from the placeholder, and a far entry that was compressed      *)
C2_Witness ==
    /\ BuildReturned /\ BucketingOn
    /\ \E i \in Rows, j \in Cols : abs(i - j) = Mid /\ Entry(i, j) = i - j
    /\ \E i \in Rows, j \in Cols :
          abs(i - j) < Mid /\ i - j # Mid - 1 /\ Entry(i, j) = i - j
    /\ \E i \in Rows, j \in Cols : abs(i - j) > Mid /\ Entry(i, j) # i - j

(* The reference value ceil(ln(a/mid) / ln(P/mid) * (mid-1)) with the real  *)
(* quotient P/mid, P = max_position - 1 > mid: the least k >= 0 with        *)
(* (a/mid)^(mid-1) <= (P/mid)^k.                                            *)
RECURSIVE RefCeilFrom(_, _, _, _)
RefCeilFrom(a, m, P, k) ==
    IF Pow(a, m - 1) * Pow(m, k) <= Pow(P, k) * Pow(m, m - 1)
    THEN k
    ELSE RefCeilFrom(a, m, P, k + 1)

RefLogPos(a, m, P) == (IF m = 1 THEN 0 ELSE RefCeilFrom(a, m, P, 0)) + m

(* C3: every far entry (|rel| > mid) equals sign(rel) * (ceil(ln(|rel|/mid) *)
(* / ln((max_position-1)/mid) * (mid-1)) + mid) with real-valued quotients. *)
C3_AgreesWithReference ==
    (BuildReturned /\ BucketingOn /\ Mid >= 1 /\ call.max_position - 1 > Mid) =>
        \A i \in Rows, j \in Cols :
            abs(i - j) > Mid =>
                Entry(i, j) = sign(i - j) * RefLogPos(abs(i - j), Mid, call.max_position - 1)

(* C4: with bucketing enabled, bucket_size <= 1 or max_position <=          *)
(* bucket_size/2 + 1 is rejected: the call returns no matrix.               *)
C4_InvalidConfigRejected ==
    (BuildDone /\ BucketingOn
        /\ (call.bucket_size <= 1 \/ call.max_position <= Mid + 1)) =>
        ~call.ret.ok

(* C5: with a valid configuration, entry [i][j] is the negation of entry    *)
(* [j][i] for all i, j < min(query_size, key_size).                         *)
C5_SignAntisymmetry ==
    (BuildReturned /\ ValidConfig) =>
        \A i \in Rows \cap Cols, j \in Rows \cap Cols : Entry(i, j) = 0 - Entry(j, i)

(* C6: with bucketing enabled, for raw distances of one sign the magnitude  *)
(* of the entry is non-decreasing in |i - j|.                               *)
C6_Monotone ==
    (BuildReturned /\ BucketingOn) =>
        \A i \in Rows, j \in Cols, i2 \in Rows, j2 \in Cols :
            (sign(i - j) = sign(i2 - j2) /\ abs(i - j) <= abs(i2 - j2)) =>
                abs(Entry(i, j)) <= abs(Entry(i2, j2))

(* C8 as stated: for all bucket_size and max_position the call returns a    *)
(* matrix of shape (1, query_size, key_size).                               *)
C8_AlwaysReturnsShape ==
    BuildDone => (call.ret.ok /\ call.ret.val.shape = <<1, call.query_size, call.key_size>>)

(* C8 amended: the call returns an integer matrix of shape                  *)
(* (1, query_size, key_size) with one entry per (i, j), except for          *)
(* bucket_size = 1 with max_position > 0, where it panics.                  *)
C8_ShapeUnlessPanic ==
    BuildDone =>
        IF call.bucket_size = 1 /\ call.max_position > 0
        THEN ~call.ret.ok
        ELSE /\ call.ret.ok
             /\ call.ret.val.shape = <<1, call.query_size, call.key_size>>
             /\ DOMAIN call.ret.val.data = Rows \X Cols
             /\ \A p \in Rows \X Cols : call.ret.val.data[p] \in Int

(* a bucketed, non-square result with compressed entries *)
C8_Witness ==
    /\ BuildReturned /\ BucketingOn
    /\ call.query_size > call.key_size /\ call.key_size > 1
    /\ call.ret.val.shape = <<1, call.query_size, call.key_size>>
    /\ \E i \in Rows, j \in Cols : Entry(i, j) # i - j

(* C10: for a valid configuration every entry with |i - j| <=               *)
(* max_position - 1 has magnitude at most bucket_size - 1, so entry +       *)
(* bucket_size indexes a row in [0, 2 * bucket_size).                       *)
C10_BoundedBucketRange ==
    (BuildReturned /\ ValidConfig) =>
        \A i \in Rows, j \in Cols :
            abs(i - j) <= call.max_position - 1 =>
                /\ abs(Entry(i, j)) <= call.bucket_size - 1
                /\ Entry(i, j) + call.bucket_size \in 0 .. 2 * call.bucket_size - 1

---------------------------------------------------------------------------
(* Properties of disentangled_att_bias, checked under SpecAtt *)

BiasDone == call.op = "disentangled_att_bias"
Supplied == call.relative_pos # None
SuppliedShapeOf == call.relative_pos[1].shape
QueryLen == call.query_layer[2]
KeyLen == call.key_layer[2]

(* C7: a supplied relative position of a rank other than 2, 3 or 4 ends the *)
(* call with the ValueError, whatever the attention was built with: no      *)
(* panic, and no relative position computed or normalised.                  *)
C7_UnsupportedRankIsValueError ==
    (BiasDone /\ Supplied /\ Len(SuppliedShapeOf) \notin {2, 3, 4}) =>
        /\ call.ret.outcome = "ValueError"
        /\ call.ret.calc_relative_pos = None
        /\ call.ret.relative_pos = None

(* a rank-5 relative position given to an attention built without relative *)
(* attention, whose pos_embed_size cannot be unwrapped                     *)
C7_Witness ==
    /\ BiasDone /\ Supplied
    /\ Len(SuppliedShapeOf) = 5
    /\ self.pos_embed_size = None
    /\ call.ret.outcome = "ValueError"

(* C9: a supplied (Q,K) becomes (1,1,Q,K), a supplied rank-3 tensor gets a  *)
(* singleton at axis 1, a rank-4 tensor is kept; the normalised tensor has  *)
(* rank 4; without a supplied tensor the call never ends with the           *)
(* ValueError, and the computed (1,Q,K) matrix is normalised to (1,1,Q,K).  *)
C9_NormalisedToRank4 ==
    BiasDone =>
        /\ (Supplied /\ Len(SuppliedShapeOf) = 2) =>
              /\ call.ret.relative_pos # None
              /\ call.ret.relative_pos[1].shape = <<1, 1, QueryLen, KeyLen>>
        /\ (Supplied /\ Len(SuppliedShapeOf) = 3) =>
              /\ call.ret.relative_pos # None
              /\ call.ret.relative_pos[1].shape =
                    <<SuppliedShapeOf[1], 1, SuppliedShapeOf[2], SuppliedShapeOf[3]>>
        /\ (Supplied /\ Len(SuppliedShapeOf) = 4) =>
              /\ call.ret.relative_pos # None
              /\ call.ret.relative_pos[1].shape = SuppliedShapeOf
        /\ call.ret.relative_pos # None => Len(call.ret.relative_pos[1].shape) = 4
        /\ ~Supplied =>
              /\ call.ret.outcome # "ValueError"
              /\ call.ret.calc_relative_pos # None =>
                    /\ call.ret.calc_relative_pos[1].shape = <<1, QueryLen, KeyLen>>
                    /\ call.ret.relative_pos # None
                    /\ call.ret.relative_pos[1].shape = <<1, 1, QueryLen, KeyLen>>

(* a call without a relative position whose bucketed, non-square matrix was *)
(* computed and normalised                                                  *)
C9_Witness ==
    /\ BiasDone /\ ~Supplied
    /\ QueryLen > KeyLen /\ KeyLen > 1
    /\ self.position_buckets # None /\ self.position_buckets[1] > 1
    /\ call.ret.outcome = "Ok"
    /\ call.ret.calc_relative_pos # None
    /\ call.ret.relative_pos[1].shape = <<1, 1, QueryLen, KeyLen>>

===========================================================================
